---- MODULE Spec2Model ----
(***************************************************************************)
(* Floppy's node execution core (floppy/node.py): ports (Info, InputInfo,  *)
(* OutputInfo), the check / run / notify protocol of Node, and the control *)
(* nodes SwitchNode, Loop, ForEach, WaitAll and WaitAny.                   *)
(*                                                                         *)
(* One node instance is driven by an external driver in check-gated        *)
(* cycles: check(), and when it is truthy run() and then notify().         *)
(* Upstream nodes write the instance's inputs at any time (their notify    *)
(* calls setInput); downstream nodes reset the inputs the instance feeds   *)
(* when they fire themselves.  A Python exception that leaves check, run   *)
(* or notify ends the drive of the node (pc = "raised"); the state keeps   *)
(* what the call had done before it raised.                                *)
(***************************************************************************)
EXTENDS Integers, Sequences, FiniteSets, TLC

VARIABLES
    cls,      \* class of the driven node instance
    inputs,   \* self.inputs : input name -> InputInfo
    outputs,  \* self.outputs: output name -> OutputInfo
    fresh,    \* self.fresh   (SwitchNode, Loop, ForEach)
    counter,  \* self.counter (Loop, ForEach)
    done,     \* self.done    (ForEach)
    graph,    \* the graph's connections from the node: graph[i] is the
              \* output name of connection i, whose input is down[i]
    down,     \* the downstream InputInfo of each connection
    pc,       \* driver position: "idle", "checked" (check has returned, its
              \* result is in res), "ran" (check was truthy and run
              \* returned), "raised" (an exception left a call)
    err,      \* exception raised by the last call, or "none"
    reads,    \* history: the input values the last run consumed
    writes,   \* history: the <<output name, value>> the last run wrote, in order
    pushes,   \* history: the <<output name, connection, value>> the last notify
              \* set downstream, in order
    nWrites,  \* history: output name -> writes by run in the current pass
    nPushes,  \* history: output name -> inputs set by notify in the current pass
    cycles,   \* history: runs of the current pass
    passIn,   \* history: what the first run of the pass read to control it
              \* (Loop: the iteration count, ForEach: the list)
    stable,   \* history: every later run of the pass read the same passIn, and
              \* notify read what run had read
    fed,      \* history (barriers): input name -> written since the node's last notify
    overwrote,\* history: the last notify set a downstream input that held a
              \* set value
    heap,     \* the port objects of a class and of its instances:
              \* object id -> Info
    refs,     \* holder ("class", or an instance) -> "inputs" / "outputs" ->
              \* port name -> object id
    attrs,    \* instance -> its attributes fresh, counter, done and the
              \* driver's position pc
    arg,      \* the argument of the last call of a class method
    res       \* the result of the last call made outside a run: check()
              \* of an instance, or a class method

hist == <<reads, writes, pushes, nWrites, nPushes, cycles, passIn, stable, overwrote>>

\* what the drive of the single instance does not touch
aux == <<heap, refs, attrs, arg, res>>

vars == <<cls, inputs, outputs, fresh, counter, done, graph, down, pc, err,
          reads, writes, pushes, nWrites, nPushes, cycles, passIn, stable, fed,
          overwrote, heap, refs, attrs, arg, res>>

---------------------------------------------------------------------------
(* Bounds of the model. *)

\* object values that travel through ports are IntV(1) .. IntV(MaxVal)
MaxVal == 2
\* largest iteration count written to Loop's Iterations input
MaxIter == 2
\* longest list written to ForEach's Start input
MaxLen == 2

---------------------------------------------------------------------------
(* Python values, tagged so that values of different types compare.        *)

None == <<"None">>
IntV(i) == <<"int", i>>
BoolV(b) == <<"bool", b>>
\* a str, as the sequence of its characters; EmptyStr is ''
StrV(s) == <<"str", s>>
EmptyStr == StrV(<<>>)
\* a list of values
ListV(s) == <<"list", s>>
\* a float; the floats of the model are whole numbers, held as integers
FloatV(x) == <<"float", x>>

Vals == {IntV(i) : i \in 1..MaxVal}
IterVals == {IntV(i) : i \in 0..MaxIter}
BoolVals == {BoolV(TRUE), BoolV(FALSE)}
\* the lists delivered to ForEach: <<1, ..., n>> for n up to MaxLen, so
\* that every position holds a different element
ListVals == {ListV([i \in 1..n |-> IntV(i)]) : n \in 0..MaxLen}

\* a call's outcome: the exception it raised ("none": it returned) and its result
Ret(v) == [exc |-> "none", val |-> v]
Raise(e) == [exc |-> e, val |-> None]

\* bool(v)
PyBool(v) ==
    CASE v[1] = "None" -> FALSE
      [] v[1] = "bool" -> v[2]
      [] v[1] \in {"int", "float"} -> v[2] # 0
      [] OTHER         -> Len(v[2]) > 0

\* int(v): the strs of the model ('' and 'TestNode') are a ValueError,
\* int(None) and int([..]) a TypeError
PyInt(v) ==
    CASE v[1] \in {"int", "float"} -> Ret(IntV(v[2]))
      [] v[1] = "bool" -> Ret(IntV(IF v[2] THEN 1 ELSE 0))
      [] v[1] = "str"  -> Raise("ValueError")
      [] OTHER         -> Raise("TypeError")

Digit(d) == <<"0", "1", "2", "3", "4", "5", "6", "7", "8", "9">>[d + 1]

\* the decimal digits of n >= 0
RECURSIVE Digits(_)
Digits(n) == IF n < 10 THEN <<Digit(n)>> ELSE Append(Digits(n \div 10), Digit(n % 10))

\* ', '.join(parts)
RECURSIVE Join(_)
Join(parts) ==
    IF parts = <<>> THEN <<>>
    ELSE IF Len(parts) = 1 THEN parts[1]
    ELSE parts[1] \o <<",", " ">> \o Join(Tail(parts))

\* the characters of str(v) (of repr(v) when quoted); the ints and floats
\* of the model are not negative
RECURSIVE StrChars(_, _)
StrChars(v, quoted) ==
    CASE v[1] = "None"  -> <<"N", "o", "n", "e">>
      [] v[1] = "bool"  -> IF v[2] THEN <<"T", "r", "u", "e">> ELSE <<"F", "a", "l", "s", "e">>
      [] v[1] = "int"   -> Digits(v[2])
      [] v[1] = "float" -> Digits(v[2]) \o <<".", "0">>
      [] v[1] = "str"   -> IF quoted THEN <<"'">> \o v[2] \o <<"'">> ELSE v[2]
      [] v[1] = "list"  ->
             <<"[">> \o Join([i \in 1..Len(v[2]) |-> StrChars(v[2][i], TRUE)]) \o <<"]">>

\* str(v)
PyStr(v) == Ret(StrV(StrChars(v, FALSE)))

\* the number a str of decimal digits spells
RECURSIVE Number(_)
Number(cs) ==
    IF cs = <<>> THEN 0
    ELSE 10 * Number(SubSeq(cs, 1, Len(cs) - 1))
         + (CHOOSE d \in 0..9 : Digit(d) = cs[Len(cs)])

\* float(v); of the strs, those made of decimal digits are parsed, which
\* covers the strs of the model ('' and 'TestNode' are a ValueError)
PyFloat(v) ==
    CASE v[1] = "float" -> Ret(v)
      [] v[1] = "int"   -> Ret(FloatV(v[2]))
      [] v[1] = "bool"  -> Ret(FloatV(IF v[2] THEN 1 ELSE 0))
      [] v[1] = "str"   ->
             IF v[2] # <<>> /\ \A i \in 1..Len(v[2]) : \E d \in 0..9 : Digit(d) = v[2][i]
             THEN Ret(FloatV(Number(v[2])))
             ELSE Raise("ValueError")
      [] OTHER          -> Raise("TypeError")

\* varType(v) for the port types the node classes declare
Coerce(varType, v) ==
    CASE varType = "object" -> Ret(v)
      [] varType = "bool"   -> Ret(BoolV(PyBool(v)))
      [] varType = "int"    -> PyInt(v)
      [] varType = "str"    -> PyStr(v)
      [] varType = "float"  -> PyFloat(v)

\* v[i] with a 0-based index i >= 0, for a list or a str
PyIndex(v, i) ==
    CASE v[1] \in {"list", "str"} ->
             IF i < Len(v[2]) THEN Ret(v[2][i + 1]) ELSE Raise("IndexError")
      [] OTHER -> Raise("TypeError")

---------------------------------------------------------------------------
(* Ports: Info, InputInfo, OutputInfo.                                     *)

\* Info.__init__: a port as the class declaration creates it
Info(default) ==
    [default |-> default, valueSet |-> FALSE, value |-> None, connected |-> FALSE]

\* the default of Input(...) / Output(...) when none is given
NoDefault == EmptyStr

\* mutant: the set flag survives the reset
Info_reset_keepsSet(p) == [p EXCEPT !.default = None]

\* mutant: the value attribute survives the reset
Info_reset_keepsValue(p) == [p EXCEPT !.default = None, !.valueSet = FALSE]

\* mutant: the default survives the reset
Info_reset_keepsDefault(p) == [p EXCEPT !.valueSet = FALSE, !.value = None]

Info_reset(p) ==
    [p EXCEPT !.default = None, !.valueSet = FALSE, !.value = None]

\* [varType(i) for i in v]: the first element that fails raises
CoerceEach(varType, v) ==
    IF v[1] # "list" THEN Raise("TypeError")
    ELSE LET r == [i \in 1..Len(v[2]) |-> Coerce(varType, v[2][i])]
             bad == {i \in 1..Len(v[2]) : r[i].exc # "none"}
         IN  IF bad # {}
             THEN Raise(r[CHOOSE i \in bad : \A j \in bad : i <= j].exc)
             ELSE Ret(ListV([i \in 1..Len(v[2]) |-> r[i].val]))

\* mutant: a usable default is returned before a set value is looked at
InputInfo_call_defaultFirst(p, varType, isList, noException) ==
    IF p.default # None /\ ~p.connected THEN Coerce(varType, p.default)
    ELSE IF p.valueSet
    THEN IF varType # "object"
         THEN IF isList THEN CoerceEach(varType, p.value) ELSE Coerce(varType, p.value)
         ELSE Ret(p.value)
    ELSE IF noException THEN Ret(None)
    ELSE Raise("InputNotAvailable")

\* InputInfo.__call__ on a port of type varType with list flag isList.  No
\* node class of node.py declares a port of a floppy Type (MetaType), so
\* that branch is not taken.
InputInfo_call(p, varType, isList, noException) ==
    IF p.valueSet
    THEN IF varType # "object"
         THEN IF isList THEN CoerceEach(varType, p.value) ELSE Coerce(varType, p.value)
         ELSE Ret(p.value)
    ELSE IF p.default # None /\ ~p.connected THEN Coerce(varType, p.default)
    ELSE IF noException THEN Ret(None)
    ELSE Raise("InputNotAvailable")

\* mutant: the set flag is not looked at
InputInfo_set_always(p, value, override) ==
    [exc |-> "none", port |-> [p EXCEPT !.value = value, !.valueSet = TRUE]]

\* InputInfo.set: the exception raised and the port afterwards
InputInfo_set(p, value, override) ==
    IF p.valueSet /\ ~override
    THEN [exc |-> "InputAlreadySet", port |-> p]
    ELSE [exc |-> "none", port |-> [p EXCEPT !.value = value, !.valueSet = TRUE]]

InputInfo_setConnected(p, value) == [p EXCEPT !.connected = value]

\* mutant: the connected flag is not looked at
InputInfo_isAvailable_ignoresConnected(p) ==
    IF p.valueSet THEN TRUE
    ELSE IF p.default # None THEN TRUE
    ELSE FALSE

InputInfo_isAvailable(p) ==
    IF p.valueSet THEN TRUE
    ELSE IF p.default # None /\ ~p.connected THEN TRUE
    ELSE FALSE

\* OutputInfo.__call__: the values of the model carry no attributes, so the
\* type tag is not attached
OutputInfo_call(p, value) == [p EXCEPT !.value = value, !.valueSet = TRUE]

---------------------------------------------------------------------------
(* Node classes: the ports each declares, in declaration order (a derived  *)
(* class keeps its base's ports first, MetaNode.__new__).                  *)

Classes == {"SwitchNode", "Loop", "ForEach", "WaitAll", "WaitAny", "TestNode2",
            "CreateInt", "DebugPrint"}

InputNames(c) ==
    CASE c = "SwitchNode" -> <<"Start", "Control", "Switch">>
      [] c = "Loop"       -> <<"Start", "Control", "Iterations">>
      [] c = "ForEach"    -> <<"Start", "Control">>
      [] c \in {"WaitAll", "WaitAny"} -> <<"1", "2">>
      [] c = "TestNode2"  -> <<"strInput", "floatInput", "Input">>
      [] c = "CreateInt"  -> <<"Value">>
      [] c = "DebugPrint" -> <<"Object">>

OutputNames(c) ==
    CASE c = "SwitchNode" -> <<"Final", "True", "False">>
      [] c = "Loop"       -> <<"Final", "LoopBody">>
      [] c = "ForEach"    -> <<"Final", "ListElement">>
      [] c \in {"WaitAll", "WaitAny"} -> <<"out">>
      [] c = "TestNode2"  -> <<"strOutput">>
      [] c = "CreateInt"  -> <<"Integer">>
      [] c = "DebugPrint" -> <<"Out">>

\* the declared varType of an input
VarType(c, n) ==
    CASE c = "SwitchNode" /\ n = "Switch" -> "bool"
      [] c = "Loop" /\ n = "Iterations"   -> "int"
      [] c = "TestNode2" /\ n = "floatInput" -> "float"
      [] c = "TestNode2"                  -> "str"
      [] c = "CreateInt"                  -> "int"
      [] OTHER                            -> "object"

\* the declared default of an input
DefaultOf(c, n) ==
    CASE c = "TestNode2" /\ n = "floatInput" -> FloatV(10)
      [] c = "TestNode2" /\ n = "Input" -> StrV(<<"T", "e", "s", "t", "N", "o", "d", "e">>)
      [] OTHER -> NoDefault

\* the declared list flag of an input
IsList(c, n) == c = "ForEach" /\ n = "Start"

Range(s) == {s[i] : i \in 1..Len(s)}

\* Node.__init__: the instance's own copies of the class's ports
NewInputs(c) == [n \in Range(InputNames(c)) |-> Info(DefaultOf(c, n))]
NewOutputs(c) == [n \in Range(OutputNames(c)) |-> Info(NoDefault)]

\* Node.__getattr__ for an input: self._<name>
ReadInput(c, ins, n) == InputInfo_call(ins[n], VarType(c, n), IsList(c, n), FALSE)

---------------------------------------------------------------------------
(* The graph collaborator and the propagation loops of notify.             *)

\* graph.getConnectionsFrom(node): the connections, by index
getConnectionsFrom(g) == [i \in 1..Len(g) |-> i]

\* graph.getConnectionsOfOutput(output)
getConnectionsOfOutput(g, name) ==
    LET keep(i) == g[i] = name
    IN  SelectSeq([i \in 1..Len(g) |-> i], keep)

\* Node.setInput on the downstream node of connection i
Node_setInput(d, i, value, override) ==
    LET r == InputInfo_set(d[i], value, override)
    IN  [exc |-> r.exc, down |-> [d EXCEPT ![i] = r.port]]

\* for con in cons: nextNode.setInput(nextInput, <value of the output>, override)
\* withDefault: an output that was never written passes its default
\* (Node.notify); otherwise its value attribute is passed as it is.
\* Returns the exception that ended the loop, the downstream inputs and
\* the <<output, connection, value>> that were set.
RECURSIVE Propagate(_, _, _, _, _, _)
Propagate(g, d, cons, outs, withDefault, override) ==
    IF cons = <<>> THEN [exc |-> "none", down |-> d, sent |-> <<>>]
    ELSE LET i == Head(cons)
             o == outs[g[i]]
             v == IF withDefault /\ ~o.valueSet THEN o.default ELSE o.value
             r == Node_setInput(d, i, v, override)
         IN  IF r.exc # "none"
             THEN [exc |-> r.exc, down |-> d, sent |-> <<>>]
             ELSE LET rest == Propagate(g, r.down, Tail(cons), outs, withDefault, override)
                  IN  [rest EXCEPT !.sent = <<<<g[i], i, v>>>> \o @]

\* [inp.reset() for inp in self.inputs.values() if keep the others]
ResetInputs(ins, names) ==
    [n \in DOMAIN ins |-> IF n \in names THEN Info_reset(ins[n]) ELSE ins[n]]

---------------------------------------------------------------------------
(* Loop                                                                    *)

Loop_check(ins, fr, cnt) ==
    IF fr
    THEN \A n \in DOMAIN ins : n = "Control" \/ InputInfo_isAvailable(ins[n])
    ELSE IF cnt > 0
         THEN InputInfo_isAvailable(ins["Control"])
         ELSE FALSE  \* falls off the end: None

\* Loop.run: the exception raised, the node afterwards, what was read from
\* the data input and what was written to which output
Loop_run(ins, outs, fr, cnt) ==
    LET same == [exc |-> "none", outputs |-> outs, fresh |-> fr, counter |-> cnt,
                 read |-> <<>>, wrote |-> <<>>]
    IN
    IF fr
    THEN LET it == ReadInput("Loop", ins, "Iterations")
             st == ReadInput("Loop", ins, "Start")
         IN  IF it.exc # "none" THEN [same EXCEPT !.exc = it.exc]
             ELSE IF st.exc # "none"
             THEN [same EXCEPT !.exc = st.exc, !.counter = it.val[2]]
             ELSE [same EXCEPT !.counter = it.val[2],
                               !.outputs = [outs EXCEPT !["LoopBody"] = OutputInfo_call(@, st.val)],
                               !.fresh = FALSE,
                               !.read = <<st.val>>,
                               !.wrote = <<<<"LoopBody", st.val>>>>]
    ELSE LET ct == ReadInput("Loop", ins, "Control")
         IN  IF cnt = 0
             THEN IF ct.exc # "none" THEN [same EXCEPT !.exc = ct.exc]
                  ELSE [same EXCEPT !.outputs = [outs EXCEPT !["Final"] = OutputInfo_call(@, ct.val)],
                                    !.read = <<ct.val>>,
                                    !.wrote = <<<<"Final", ct.val>>>>]
             ELSE IF ct.exc # "none"
                  THEN [same EXCEPT !.exc = ct.exc, !.counter = cnt - 1]
                  ELSE [same EXCEPT !.counter = cnt - 1,
                                    !.outputs = [outs EXCEPT !["LoopBody"] = OutputInfo_call(@, ct.val)],
                                    !.read = <<ct.val>>,
                                    !.wrote = <<<<"LoopBody", ct.val>>>>]

\* mutant: the notify that ends the loop resets Iterations as well
Loop_notify_resetsAll(g, ins, outs, fr, cnt, d) ==
    IF cnt > 0
    THEN LET pr == Propagate(g, d, getConnectionsOfOutput(g, "LoopBody"), outs, FALSE, TRUE)
         IN  [exc |-> pr.exc, down |-> pr.down, sent |-> pr.sent, fresh |-> fr,
              inputs |-> IF pr.exc = "none" THEN ResetInputs(ins, {"Control"}) ELSE ins]
    ELSE LET pr == Propagate(g, d, getConnectionsOfOutput(g, "Final"), outs, FALSE, FALSE)
         IN  IF pr.exc # "none"
             THEN [exc |-> pr.exc, down |-> pr.down, sent |-> pr.sent, fresh |-> fr,
                   inputs |-> ins]
             ELSE [exc |-> "none", down |-> pr.down, sent |-> pr.sent, fresh |-> TRUE,
                   inputs |-> ResetInputs(ins, DOMAIN ins)]

\* mutant: notify takes the LoopBody branch whatever the counter is
Loop_notify_neverFinal(g, ins, outs, fr, cnt, d) ==
    LET pr == Propagate(g, d, getConnectionsOfOutput(g, "LoopBody"), outs, FALSE, TRUE)
    IN  [exc |-> pr.exc, down |-> pr.down, sent |-> pr.sent, fresh |-> fr,
         inputs |-> IF pr.exc = "none" THEN ResetInputs(ins, {"Control"}) ELSE ins]

\* Loop.notify: the exception raised, the node and the downstream inputs afterwards
Loop_notify(g, ins, outs, fr, cnt, d) ==
    IF cnt > 0
    THEN LET pr == Propagate(g, d, getConnectionsOfOutput(g, "LoopBody"), outs, FALSE, TRUE)
         IN  [exc |-> pr.exc, down |-> pr.down, sent |-> pr.sent, fresh |-> fr,
              inputs |-> IF pr.exc = "none" THEN ResetInputs(ins, {"Control"}) ELSE ins]
    ELSE LET pr == Propagate(g, d, getConnectionsOfOutput(g, "Final"), outs, FALSE, FALSE)
         IN  IF pr.exc # "none"
             THEN [exc |-> pr.exc, down |-> pr.down, sent |-> pr.sent, fresh |-> fr,
                   inputs |-> ins]
             ELSE [exc |-> "none", down |-> pr.down, sent |-> pr.sent, fresh |-> TRUE,
                   inputs |-> ResetInputs(ins, DOMAIN ins \ {"Iterations"})]

---------------------------------------------------------------------------
(* SwitchNode                                                              *)

\* mutant: the fresh check does not skip Control
SwitchNode_check_all(ins, fr) ==
    IF fr
    THEN \A n \in DOMAIN ins : InputInfo_isAvailable(ins[n])
    ELSE InputInfo_isAvailable(ins["Control"])

SwitchNode_check(ins, fr) ==
    IF fr
    THEN \A n \in DOMAIN ins : n = "Control" \/ InputInfo_isAvailable(ins[n])
    ELSE IF InputInfo_isAvailable(ins["Control"])
         THEN TRUE
         ELSE FALSE  \* falls off the end: None

\* mutant: the branches are swapped
Selected_swapped(sw) == IF sw[2] THEN "False" ELSE "True"

\* the output self._Switch selects
Selected(sw) == IF sw[2] THEN "True" ELSE "False"

SwitchNode_run(ins, outs, fr) ==
    LET same == [exc |-> "none", outputs |-> outs, read |-> <<>>, wrote |-> <<>>]
    IN
    IF fr
    THEN LET sw == ReadInput("SwitchNode", ins, "Switch")
             st == ReadInput("SwitchNode", ins, "Start")
         IN  IF sw.exc # "none" THEN [same EXCEPT !.exc = sw.exc]
             ELSE IF st.exc # "none" THEN [same EXCEPT !.exc = st.exc]
             ELSE [same EXCEPT !.outputs = [outs EXCEPT ![Selected(sw.val)] = OutputInfo_call(@, st.val)],
                               !.read = <<sw.val, st.val>>,
                               !.wrote = <<<<Selected(sw.val), st.val>>>>]
    ELSE LET ct == ReadInput("SwitchNode", ins, "Control")
         IN  IF ct.exc # "none" THEN [same EXCEPT !.exc = ct.exc]
             ELSE [same EXCEPT !.outputs = [outs EXCEPT !["Final"] = OutputInfo_call(@, ct.val)],
                               !.read = <<ct.val>>,
                               !.wrote = <<<<"Final", ct.val>>>>]

\* SwitchNode.notify; read is what notify read from Switch
SwitchNode_notify(g, ins, outs, fr, d) ==
    LET same == [exc |-> "none", down |-> d, sent |-> <<>>, fresh |-> fr,
                 inputs |-> ins, read |-> <<>>]
    IN
    IF fr
    THEN LET sw == ReadInput("SwitchNode", ins, "Switch")
         IN  IF sw.exc # "none" THEN [same EXCEPT !.exc = sw.exc]
             ELSE LET pr == Propagate(g, d, getConnectionsOfOutput(g, Selected(sw.val)),
                                      outs, FALSE, FALSE)
                  IN  IF pr.exc # "none"
                      THEN [same EXCEPT !.exc = pr.exc, !.down = pr.down, !.sent = pr.sent,
                                        !.read = <<sw.val>>]
                      ELSE [same EXCEPT !.down = pr.down, !.sent = pr.sent,
                                        !.read = <<sw.val>>,
                                        !.fresh = FALSE,
                                        !.inputs = ResetInputs(ins, {"Start", "Switch", "Control"})]
    ELSE LET pr == Propagate(g, d, getConnectionsOfOutput(g, "Final"), outs, FALSE, FALSE)
         IN  IF pr.exc # "none"
             THEN [same EXCEPT !.exc = pr.exc, !.down = pr.down, !.sent = pr.sent]
             ELSE [same EXCEPT !.down = pr.down, !.sent = pr.sent,
                               !.fresh = TRUE,
                               !.inputs = ResetInputs(ins, {"Control"})]

---------------------------------------------------------------------------
(* ForEach                                                                 *)

ForEach_check(ins, fr) ==
    IF fr
    THEN \A n \in DOMAIN ins : n = "Control" \/ InputInfo_isAvailable(ins[n])
    ELSE IF InputInfo_isAvailable(ins["Control"])
         THEN TRUE
         ELSE FALSE  \* falls off the end: None

\* mutant: the cursor is not advanced
ForEach_advance_stuck(cnt) == cnt

\* self.counter += 1
ForEach_advance(cnt) == cnt + 1

\* ForEach.run: fresh is cleared first; an IndexError of the element read
\* is caught and ends the iteration; read is the Start value
ForEach_run(ins, outs, cnt, dn) ==
    LET st == ReadInput("ForEach", ins, "Start")
        el == PyIndex(st.val, cnt)
        same == [exc |-> "none", outputs |-> outs, fresh |-> FALSE, counter |-> cnt,
                 done |-> dn, read |-> <<>>, wrote |-> <<>>]
    IN  IF st.exc # "none" THEN [same EXCEPT !.exc = st.exc]
        ELSE IF el.exc = "none"
        THEN [same EXCEPT !.outputs = [outs EXCEPT !["ListElement"] = OutputInfo_call(@, el.val)],
                          !.counter = ForEach_advance(cnt),
                          !.read = <<st.val>>,
                          !.wrote = <<<<"ListElement", el.val>>>>]
        ELSE IF el.exc = "IndexError"
        THEN [same EXCEPT !.outputs = [outs EXCEPT !["Final"] = OutputInfo_call(@, st.val)],
                          !.done = TRUE,
                          !.counter = ForEach_advance(cnt),
                          !.read = <<st.val>>,
                          !.wrote = <<<<"Final", st.val>>>>]
        ELSE [same EXCEPT !.exc = el.exc]

\* mutant: the cursor is kept
ForEach_rewind_kept(cnt) == cnt

\* self.counter = 0
ForEach_rewind(cnt) == 0

ForEach_notify(g, ins, outs, fr, cnt, dn, d) ==
    LET same == [exc |-> "none", down |-> d, sent |-> <<>>, fresh |-> fr,
                 counter |-> cnt, done |-> dn, inputs |-> ins]
    IN
    IF ~dn
    THEN LET pr == Propagate(g, d, getConnectionsOfOutput(g, "ListElement"), outs, FALSE, TRUE)
         IN  [same EXCEPT !.exc = pr.exc, !.down = pr.down, !.sent = pr.sent,
                          !.inputs = IF pr.exc = "none" THEN ResetInputs(ins, {"Control"}) ELSE ins]
    ELSE LET pr == Propagate(g, d, getConnectionsOfOutput(g, "Final"), outs, FALSE, FALSE)
         IN  IF pr.exc # "none"
             THEN [same EXCEPT !.exc = pr.exc, !.down = pr.down, !.sent = pr.sent]
             ELSE [same EXCEPT !.down = pr.down, !.sent = pr.sent,
                               !.fresh = TRUE,
                               !.inputs = ResetInputs(ins, DOMAIN ins \ {"Iterations"}),
                               !.counter = ForEach_rewind(cnt),
                               !.done = FALSE]

---------------------------------------------------------------------------
(* Node (the default protocol), WaitAll, WaitAny                           *)

\* mutant: every input must hold a set value; a default does not count
Node_check_allSet(ins) == \A n \in DOMAIN ins : ins[n].valueSet

\* mutant: one available input is enough
Node_check_any(ins) == \E n \in DOMAIN ins : InputInfo_isAvailable(ins[n])

Node_check(ins) == \A n \in DOMAIN ins : InputInfo_isAvailable(ins[n])

\* Node.run only prints
Node_run(outs) == [exc |-> "none", outputs |-> outs, read |-> <<>>, wrote |-> <<>>]

\* mutant: the downstream inputs are set without override
Node_notify_noOverride(g, ins, outs, d) ==
    LET pr == Propagate(g, d, getConnectionsFrom(g), outs, TRUE, FALSE)
    IN  [exc |-> pr.exc, down |-> pr.down, sent |-> pr.sent,
         inputs |-> IF pr.exc = "none" THEN ResetInputs(ins, DOMAIN ins) ELSE ins]

\* mutant: every connection gets the output's default
Node_notify_pushesDefault(g, ins, outs, d) ==
    LET pr == Propagate(g, d, getConnectionsFrom(g),
                        [o \in DOMAIN outs |-> [outs[o] EXCEPT !.valueSet = FALSE]], TRUE, TRUE)
    IN  [exc |-> pr.exc, down |-> pr.down, sent |-> pr.sent,
         inputs |-> IF pr.exc = "none" THEN ResetInputs(ins, DOMAIN ins) ELSE ins]

\* Node.notify: every connection gets the output's value, or its default
\* when it was never written, with override; then every input is reset
Node_notify(g, ins, outs, d) ==
    LET pr == Propagate(g, d, getConnectionsFrom(g), outs, TRUE, TRUE)
    IN  [exc |-> pr.exc, down |-> pr.down, sent |-> pr.sent,
         inputs |-> IF pr.exc = "none" THEN ResetInputs(ins, DOMAIN ins) ELSE ins]

\* DebugPrint.run: obj = self._Object; print; self._Out(obj)
DebugPrint_run(ins, outs) ==
    LET obj == ReadInput("DebugPrint", ins, "Object")
    IN  IF obj.exc # "none"
        THEN [exc |-> obj.exc, outputs |-> outs, read |-> <<>>, wrote |-> <<>>]
        ELSE [exc |-> "none",
              outputs |-> [outs EXCEPT !["Out"] = OutputInfo_call(@, obj.val)],
              read |-> <<obj.val>>, wrote |-> <<<<"Out", obj.val>>>>]

WaitAll_notify(g, ins, outs, d) ==
    LET r == Node_notify(g, ins, outs, d)
    IN  IF r.exc # "none" THEN r
        ELSE [r EXCEPT !.inputs = ResetInputs(r.inputs, DOMAIN ins)]

WaitAny_check(ins) ==
    IF \E n \in DOMAIN ins : ins[n].valueSet
    THEN TRUE
    ELSE FALSE  \* falls off the end: None

\* for inp in <the inputs named by names>: if inp.valueSet: self._out(inp.value)
RECURSIVE ForwardSet(_, _, _)
ForwardSet(ins, r, names) ==
    IF names = <<>> THEN r
    ELSE LET inp == ins[Head(names)]
         IN  IF inp.valueSet
             THEN ForwardSet(ins,
                             [r EXCEPT !.outputs = [@ EXCEPT !["out"] = OutputInfo_call(@, inp.value)],
                                       !.read = Append(@, inp.value),
                                       !.wrote = Append(@, <<"out", inp.value>>)],
                             Tail(names))
             ELSE ForwardSet(ins, r, Tail(names))

\* mutant: the inputs are visited last-declared first
WaitAny_run_reversed(ins, outs) ==
    LET names == InputNames("WaitAny")
    IN  ForwardSet(ins, Node_run(outs), [i \in 1..Len(names) |-> names[Len(names) + 1 - i]])

WaitAny_run(ins, outs) == ForwardSet(ins, Node_run(outs), InputNames("WaitAny"))

---------------------------------------------------------------------------
(* The instance under drive and its surroundings.                          *)

\* the values upstream nodes deliver to an input
InputVals(c, n) ==
    CASE c = "SwitchNode" /\ n = "Switch" -> BoolVals
      [] c = "Loop" /\ n = "Iterations"   -> IterVals
      [] c = "ForEach" /\ n = "Start"     -> ListVals
      [] OTHER                            -> Vals

\* the graphs the node is placed in: no connection, one connection from
\* one of its outputs, or two connections from its first output
Graphs(c) ==
    {<<>>} \cup {<<o>> : o \in Range(OutputNames(c))}
           \cup {<<OutputNames(c)[1], OutputNames(c)[1]>>}

\* the inputs the graph collaborator has marked connected (setConnected).
\* An input that is marked connected before the node first fires behaves
\* as an unmarked one does after the node's first notify has cleared its
\* default, so the control nodes are followed with unmarked inputs only;
\* the barriers with every marking.
ConnectedFlags(c) ==
    IF c \in {"WaitAll", "WaitAny", "DebugPrint", "TestNode2"}
    THEN [Range(InputNames(c)) -> BOOLEAN]
    ELSE {[n \in Range(InputNames(c)) |-> FALSE]}

\* Node.__init__ (and the __init__ of the control nodes) for class c, then
\* the graph collaborator's setConnected on any of the inputs
InitNode(c) ==
    /\ cls = c
    /\ \E f \in ConnectedFlags(c) :
           inputs = [n \in Range(InputNames(c)) |->
                        InputInfo_setConnected(NewInputs(c)[n], f[n])]
    /\ outputs = NewOutputs(c)
    /\ fresh = TRUE
    /\ counter = 0
    /\ done = FALSE
    /\ graph \in Graphs(c)
    /\ down = [i \in 1..Len(graph) |-> InputInfo_setConnected(Info(NoDefault), TRUE)]
    /\ pc = "idle"
    /\ err = "none"
    /\ reads = <<>>
    /\ writes = <<>>
    /\ pushes = <<>>
    /\ nWrites = [o \in Range(OutputNames(c)) |-> 0]
    /\ nPushes = [o \in Range(OutputNames(c)) |-> 0]
    /\ cycles = 0
    /\ passIn = None
    /\ stable = TRUE
    /\ overwrote = FALSE
    /\ heap = <<>> /\ refs = <<>> /\ attrs = <<>>
    /\ arg = None /\ res = None
    /\ fed = [n \in (IF c \in {"WaitAll", "WaitAny"} THEN Range(InputNames(c)) ELSE {}) |-> FALSE]

\* an upstream node's default notify sets input n:
\* nextNode.setInput(n, v, override=True)
SetInput(n, v) ==
    LET r == InputInfo_set(inputs[n], v, TRUE)
    IN  /\ pc \notin {"raised", "checked"}
        /\ r.exc = "none"
        /\ inputs' = [inputs EXCEPT ![n] = r.port]
        /\ fed' = IF n \in DOMAIN fed THEN [fed EXCEPT ![n] = TRUE] ELSE fed
        /\ UNCHANGED <<aux, cls, outputs, fresh, counter, done, graph, down, pc, err, hist>>

Upstream ==
    \E n \in DOMAIN inputs : \E v \in InputVals(cls, n) : SetInput(n, v)

\* the downstream node of connection i fires: its notify resets its inputs
Downstream ==
    \E i \in DOMAIN down :
        /\ pc \notin {"raised", "checked"}
        /\ down[i].valueSet
        /\ down' = [down EXCEPT ![i] = Info_reset(@)]
        /\ UNCHANGED <<aux, cls, inputs, outputs, fresh, counter, done, graph, pc, err,
                       hist, fed>>

\* number of entries of a history of writes or pushes that name output o
CountOf(h, o) == Cardinality({i \in 1..Len(h) : h[i][1] = o})

\* the histories after a run: r is the run's outcome (r.read, r.wrote),
\* passStart says that the run began a pass, ctl is what it read to control
\* the pass
AfterRun(passStart, r, ctl) ==
    /\ reads' = r.read
    /\ writes' = r.wrote
    /\ pushes' = <<>>
    /\ nWrites' = [o \in DOMAIN nWrites |->
                      (IF passStart THEN 0 ELSE nWrites[o]) + CountOf(r.wrote, o)]
    /\ nPushes' = IF passStart THEN [o \in DOMAIN nPushes |-> 0] ELSE nPushes
    /\ cycles' = (IF passStart THEN 0 ELSE cycles) + 1
    /\ passIn' = IF passStart THEN ctl ELSE passIn
    /\ stable' = IF passStart THEN TRUE ELSE stable /\ ctl = passIn
    /\ overwrote' = FALSE

\* the histories after a notify that set `sent` downstream; same says that
\* what notify read again was what run had read
AfterNotify(sent, same) ==
    /\ pushes' = sent
    /\ nPushes' = [o \in DOMAIN nPushes |-> nPushes[o] + CountOf(sent, o)]
    /\ stable' = (stable /\ same)
    /\ overwrote' = \E k \in 1..Len(sent) : down[sent[k][2]].valueSet
    /\ UNCHANGED <<reads, writes, nWrites, cycles, passIn>>

---------------------------------------------------------------------------
(* The driver's cycle on a Loop: check() and, when it is truthy, run(),    *)
(* then notify().  A falsy check changes nothing.                          *)

LoopRun ==
    /\ cls = "Loop"
    /\ pc = "idle"
    /\ Loop_check(inputs, fresh, counter)
    /\ LET r == Loop_run(inputs, outputs, fresh, counter)
       IN  /\ outputs' = r.outputs
           /\ fresh' = r.fresh
           /\ counter' = r.counter
           /\ err' = r.exc
           /\ pc' = IF r.exc = "none" THEN "ran" ELSE "raised"
           /\ AfterRun(fresh, r, IF fresh THEN IntV(r.counter) ELSE passIn)
    /\ UNCHANGED <<aux, cls, inputs, done, graph, down, fed>>

LoopNotify ==
    /\ cls = "Loop"
    /\ pc = "ran"
    /\ LET r == Loop_notify(graph, inputs, outputs, fresh, counter, down)
       IN  /\ inputs' = r.inputs
           /\ down' = r.down
           /\ fresh' = r.fresh
           /\ err' = r.exc
           /\ pc' = IF r.exc = "none" THEN "idle" ELSE "raised"
           /\ AfterNotify(r.sent, TRUE)
    /\ UNCHANGED <<aux, cls, outputs, counter, done, graph, fed>>

InitLoop == InitNode("Loop")
NextLoop == LoopRun \/ LoopNotify \/ Upstream \/ Downstream
SpecLoop == InitLoop /\ [][NextLoop]_vars

\* a pass of the Loop has completed: the notify that set fresh again has
\* returned and no run has followed; passIn is the count N the pass ran with
\* and reads holds what the last run of the pass consumed
LoopPassDone == cls = "Loop" /\ pc = "idle" /\ fresh /\ cycles > 0

(* C1: when a pass of the counted loop with Iterations = N >= 1 completes, *)
(* the Final output holds the last Control value C_N and C_N is what       *)
(* notify set on every input connected to Final.                           *)
C1_FinalIsLastControl ==
    (LoopPassDone /\ passIn[2] >= 1) =>
        /\ outputs["Final"].valueSet
        /\ outputs["Final"].value = reads[1]
        /\ \A k \in 1..Len(pushes) : pushes[k][1] = "Final" /\ pushes[k][3] = reads[1]

(* C2: over one complete pass with Iterations = N >= 1, run writes the     *)
(* LoopBody output exactly N times and the Final output exactly once.      *)
C2_RunWritesNLoopBodyOneFinal ==
    (LoopPassDone /\ passIn[2] >= 1) =>
        /\ nWrites["LoopBody"] = passIn[2]
        /\ nWrites["Final"] = 1

---------------------------------------------------------------------------
(* The driver's cycle on a SwitchNode.                                     *)

SwitchRun ==
    /\ cls = "SwitchNode"
    /\ pc = "idle"
    /\ SwitchNode_check(inputs, fresh)
    /\ LET r == SwitchNode_run(inputs, outputs, fresh)
       IN  /\ outputs' = r.outputs
           /\ err' = r.exc
           /\ pc' = IF r.exc = "none" THEN "ran" ELSE "raised"
           /\ AfterRun(fresh, r, None)
    /\ UNCHANGED <<aux, cls, inputs, fresh, counter, done, graph, down, fed>>

SwitchNotify ==
    /\ cls = "SwitchNode"
    /\ pc = "ran"
    /\ LET r == SwitchNode_notify(graph, inputs, outputs, fresh, down)
       IN  /\ inputs' = r.inputs
           /\ down' = r.down
           /\ fresh' = r.fresh
           /\ err' = r.exc
           /\ pc' = IF r.exc = "none" THEN "idle" ELSE "raised"
           /\ AfterNotify(r.sent, r.read = <<>> \/ r.read[1] = reads[1])
    /\ UNCHANGED <<aux, cls, outputs, counter, done, graph, fed>>

InitSwitch == InitNode("SwitchNode")
NextSwitch == SwitchRun \/ SwitchNotify \/ Upstream \/ Downstream
SpecSwitch == InitSwitch /\ [][NextSwitch]_vars

(* C3: branch node.  After the first run+notify cycle of a pass, with      *)
(* Switch read as b and Start as S (and Switch still b when notify reads   *)
(* it), the output b selects holds S, run wrote no other output, and       *)
(* notify set exactly the inputs connected to the selected output, to S.   *)
(* After the second cycle, which read Control as C, Final holds C, notify  *)
(* set exactly the inputs connected to Final, to C, and the node is fresh. *)
C3_BranchRoutesThenJoins ==
    /\ (cls = "SwitchNode" /\ pc = "idle" /\ cycles = 1 /\ stable) =>
          LET b == reads[1][2]
              S == reads[2]
              sel == IF b THEN "True" ELSE "False"
              other == IF b THEN "False" ELSE "True"
              cons == getConnectionsOfOutput(graph, sel)
          IN  /\ ~fresh
              /\ writes = <<<<sel, S>>>>
              /\ nWrites[other] = 0
              /\ outputs[sel].valueSet /\ outputs[sel].value = S
              /\ pushes = [k \in 1..Len(cons) |-> <<sel, cons[k], S>>]
    /\ (cls = "SwitchNode" /\ pc = "idle" /\ cycles = 2) =>
          LET C == reads[1]
              cons == getConnectionsOfOutput(graph, "Final")
          IN  /\ fresh
              /\ writes = <<<<"Final", C>>>>
              /\ outputs["Final"].valueSet /\ outputs["Final"].value = C
              /\ pushes = [k \in 1..Len(cons) |-> <<"Final", cons[k], C>>]

\* a pass went through the True branch into a connected input and has joined
\* into a connected Final
C3_Witness ==
    /\ cls = "SwitchNode" /\ pc = "idle" /\ cycles = 2 /\ fresh
    /\ Len(pushes) = 2
    /\ outputs["True"].valueSet /\ outputs["True"].value # outputs["Final"].value

(* C4: branch node readiness.  In every state check() is truthy iff Start  *)
(* and Switch are available while fresh, and iff Control is available       *)
(* while pending-join; every notify that returns flips fresh and no other   *)
(* step changes it.                                                         *)
C4_BranchReadiness ==
    /\ [](cls = "SwitchNode" =>
            (SwitchNode_check(inputs, fresh) <=>
                IF fresh
                THEN /\ InputInfo_isAvailable(inputs["Start"])
                     /\ InputInfo_isAvailable(inputs["Switch"])
                ELSE InputInfo_isAvailable(inputs["Control"])))
    /\ [][cls = "SwitchNode" =>
            /\ (fresh' # fresh) => (pc = "ran" /\ pc' = "idle")
            /\ (pc = "ran" /\ pc' = "idle") => (fresh' = ~fresh)]_vars

\* pending-join and ready on Control alone, Start and Switch not available
C4_Witness ==
    /\ cls = "SwitchNode" /\ pc = "idle" /\ ~fresh
    /\ SwitchNode_check(inputs, fresh)
    /\ ~InputInfo_isAvailable(inputs["Start"])
    /\ ~InputInfo_isAvailable(inputs["Switch"])

---------------------------------------------------------------------------
(* The driver's cycle on a ForEach.                                        *)

ForEachRun ==
    /\ cls = "ForEach"
    /\ pc = "idle"
    /\ ForEach_check(inputs, fresh)
    /\ LET r == ForEach_run(inputs, outputs, counter, done)
       IN  /\ outputs' = r.outputs
           /\ fresh' = r.fresh
           /\ counter' = r.counter
           /\ done' = r.done
           /\ err' = r.exc
           /\ pc' = IF r.exc = "none" THEN "ran" ELSE "raised"
           /\ AfterRun(fresh, r, IF r.read = <<>> THEN None ELSE r.read[1])
    /\ UNCHANGED <<aux, cls, inputs, graph, down, fed>>

ForEachNotify ==
    /\ cls = "ForEach"
    /\ pc = "ran"
    /\ LET r == ForEach_notify(graph, inputs, outputs, fresh, counter, done, down)
       IN  /\ inputs' = r.inputs
           /\ down' = r.down
           /\ fresh' = r.fresh
           /\ counter' = r.counter
           /\ done' = r.done
           /\ err' = r.exc
           /\ pc' = IF r.exc = "none" THEN "idle" ELSE "raised"
           /\ AfterNotify(r.sent, TRUE)
    /\ UNCHANGED <<aux, cls, outputs, graph, fed>>

InitForEach == InitNode("ForEach")
NextForEach == ForEachRun \/ ForEachNotify \/ Upstream \/ Downstream
SpecForEach == InitForEach /\ [][NextForEach]_vars

(* C5: for-each over a list L of length n (Start reads as L at every run   *)
(* of the pass).  The k-th run of the pass, k <= n, writes ListElement =   *)
(* L[k-1] and nothing else, so the elements come in list order, one per    *)
(* cycle; run number n+1 writes Final = L and its notify sets exactly the  *)
(* inputs connected to Final, to L; there is no further run in the pass.   *)
(* Every notify leaves Control unavailable and every run after the first   *)
(* finds a value set on Control, so Control was written in between.        *)
C5_ForEachInOrder ==
    /\ [](cls = "ForEach" /\ pc \in {"ran", "idle"} /\ cycles >= 1 /\ stable =>
            LET L == passIn[2]
                n == Len(L)
                cons == getConnectionsOfOutput(graph, "Final")
            IN  /\ cycles <= n + 1
                /\ IF cycles <= n
                   THEN /\ writes = <<<<"ListElement", L[cycles]>>>>
                        /\ nWrites["ListElement"] = cycles
                        /\ nWrites["Final"] = 0
                   ELSE /\ writes = <<<<"Final", passIn>>>>
                        /\ nWrites["ListElement"] = n
                        /\ nWrites["Final"] = 1
                        /\ outputs["Final"].valueSet /\ outputs["Final"].value = passIn
                        /\ pc = "idle" =>
                              pushes = [k \in 1..Len(cons) |-> <<"Final", cons[k], passIn>>])
    /\ [][cls = "ForEach" =>
            /\ (pc = "ran" /\ pc' = "idle") => ~InputInfo_isAvailable(inputs'["Control"])
            /\ (pc = "idle" /\ pc' = "ran" /\ ~fresh) => inputs["Control"].valueSet]_vars

\* a pass over a list of two elements has completed and pushed Final
C5_Witness ==
    /\ cls = "ForEach" /\ pc = "idle" /\ fresh /\ stable
    /\ cycles = 3 /\ Len(passIn[2]) = 2
    /\ pushes # <<>>

(* C6: for-each terminates.  With a list of length n the done cycle is     *)
(* cycle number n+1 of the pass, no earlier and no later; the notify of    *)
(* that cycle sets fresh, counter = 0, done = false and resets every       *)
(* input; a fresh node always has counter = 0 and done = false, so the     *)
(* first run of the next pass writes the first element of its list.        *)
C6_ForEachTerminates ==
    /\ [](cls = "ForEach" /\ pc = "ran" /\ stable =>
            /\ cycles <= Len(passIn[2]) + 1
            /\ done <=> (cycles = Len(passIn[2]) + 1))
    /\ [](cls = "ForEach" /\ fresh => counter = 0 /\ ~done)
    /\ [](cls = "ForEach" /\ pc = "ran" /\ cycles = 1 /\ Len(passIn[2]) >= 1 =>
            writes = <<<<"ListElement", passIn[2][1]>>>>)
    /\ [][cls = "ForEach" /\ pc = "ran" /\ pc' = "idle" /\ done =>
            /\ fresh' /\ counter' = 0 /\ ~done'
            /\ \A n \in DOMAIN inputs :
                  /\ ~inputs'[n].valueSet
                  /\ inputs'[n].value = None
                  /\ inputs'[n].default = None
                  /\ ~InputInfo_isAvailable(inputs'[n])]_vars

\* the first run of a later pass, over a list other than the previous one
C6_Witness ==
    /\ cls = "ForEach" /\ pc = "ran" /\ cycles = 1
    /\ outputs["Final"].valueSet /\ outputs["Final"].value # passIn
    /\ passIn[1] = "list" /\ Len(passIn[2]) = 2
    /\ writes = <<<<"ListElement", IntV(1)>>>>

---------------------------------------------------------------------------
(* The driver's cycle on a WaitAll and on a WaitAny; each cycle is a pass. *)

WaitAllRun ==
    /\ cls = "WaitAll"
    /\ pc = "idle"
    /\ Node_check(inputs)
    /\ LET r == Node_run(outputs)
       IN  /\ outputs' = r.outputs
           /\ err' = r.exc
           /\ pc' = "ran"
           /\ AfterRun(TRUE, r, None)
    /\ UNCHANGED <<aux, cls, inputs, fresh, counter, done, graph, down, fed>>

\* WaitAny inherits notify from WaitAll
BarrierNotify ==
    /\ cls \in {"WaitAll", "WaitAny"}
    /\ pc = "ran"
    /\ LET r == WaitAll_notify(graph, inputs, outputs, down)
       IN  /\ inputs' = r.inputs
           /\ down' = r.down
           /\ err' = r.exc
           /\ pc' = IF r.exc = "none" THEN "idle" ELSE "raised"
           /\ fed' = IF r.exc = "none" THEN [n \in DOMAIN fed |-> FALSE] ELSE fed
           /\ AfterNotify(r.sent, TRUE)
    /\ UNCHANGED <<aux, cls, outputs, fresh, counter, done, graph>>

InitWaitAll == InitNode("WaitAll")
NextWaitAll == WaitAllRun \/ BarrierNotify \/ Upstream \/ Downstream
SpecWaitAll == InitWaitAll /\ [][NextWaitAll]_vars

WaitAnyRun ==
    /\ cls = "WaitAny"
    /\ pc = "idle"
    /\ WaitAny_check(inputs)
    /\ LET r == WaitAny_run(inputs, outputs)
       IN  /\ outputs' = r.outputs
           /\ err' = r.exc
           /\ pc' = "ran"
           /\ AfterRun(TRUE, r, None)
    /\ UNCHANGED <<aux, cls, inputs, fresh, counter, done, graph, down, fed>>

InitWaitAny == InitNode("WaitAny")
NextWaitAny == WaitAnyRun \/ BarrierNotify \/ Upstream \/ Downstream
SpecWaitAny == InitWaitAny /\ [][NextWaitAny]_vars

(* C7: all-of barrier.  Every notify leaves every input reset (no value   *)
(* set, not available), with or without a downstream connection; after a  *)
(* notify check() is truthy only when every input has been written since   *)
(* that notify, and an input that is unavailable becomes available only by *)
(* being written.                                                           *)
C7_WaitAllResetsAll ==
    /\ [](cls = "WaitAll" /\ pc = "idle" /\ cycles >= 1 =>
            (Node_check(inputs) => \A n \in DOMAIN inputs : fed[n]))
    /\ [][cls = "WaitAll" =>
            /\ (pc = "ran" /\ pc' = "idle") =>
                  \A n \in DOMAIN inputs :
                      /\ ~inputs'[n].valueSet
                      /\ inputs'[n].value = None
                      /\ ~InputInfo_isAvailable(inputs'[n])
                      /\ ~Node_check(inputs')
            /\ \A n \in DOMAIN inputs :
                  (~InputInfo_isAvailable(inputs[n]) /\ InputInfo_isAvailable(inputs'[n]))
                      => (fed'[n] /\ inputs'[n].valueSet)]_vars

\* after a notify of an unconnected barrier one input has been written
\* again, the other has not, and the barrier is not ready
C7_Witness ==
    /\ cls = "WaitAll" /\ pc = "idle" /\ cycles >= 1 /\ graph = <<>>
    /\ fed["1"] /\ ~fed["2"]
    /\ ~Node_check(inputs)

(* C8: all-of barrier with both inputs marked connected, fed by upstream    *)
(* notify calls in any order and number.  Whenever check() is truthy, and   *)
(* whenever the barrier has fired (run has returned), every input has been  *)
(* written since the barrier's previous notify and holds a set value.       *)
C8_WaitAllNoStaleInput ==
    (cls = "WaitAll" /\ \A n \in DOMAIN inputs : inputs[n].connected) =>
        /\ (pc = "idle" /\ Node_check(inputs)) =>
               \A n \in DOMAIN inputs : fed[n] /\ inputs[n].valueSet
        /\ pc = "ran" => \A n \in DOMAIN inputs : fed[n] /\ inputs[n].valueSet

\* a later firing of a connected barrier: it has fired before and fires again
C8_Witness ==
    /\ cls = "WaitAll" /\ pc = "ran"
    /\ \A n \in DOMAIN inputs : inputs[n].connected /\ inputs[n].default = None
    /\ inputs["1"].value # inputs["2"].value

(* C9: any-of barrier.  check() is truthy iff some input has a value set    *)
(* (an available default is not enough); run writes to out the value of     *)
(* each input that has a value set, in declaration order ("1", then "2"),   *)
(* each once, so out then holds the value of the last-declared set input.   *)
C9_WaitAnyForwardsInOrder ==
    /\ [](cls = "WaitAny" =>
            (WaitAny_check(inputs) <=> (inputs["1"].valueSet \/ inputs["2"].valueSet)))
    /\ [][(cls = "WaitAny" /\ pc = "idle" /\ pc' = "ran") =>
            LET w1 == IF inputs["1"].valueSet THEN <<<<"out", inputs["1"].value>>>> ELSE <<>>
                w2 == IF inputs["2"].valueSet THEN <<<<"out", inputs["2"].value>>>> ELSE <<>>
            IN  /\ writes' = w1 \o w2
                /\ writes' # <<>>
                /\ outputs'["out"].valueSet
                /\ outputs'["out"].value = writes'[Len(writes')][2]
                /\ outputs'["out"].value =
                      IF inputs["2"].valueSet THEN inputs["2"].value ELSE inputs["1"].value]_vars

\* both inputs were set to different values and run has forwarded both
C9_Witness ==
    /\ cls = "WaitAny" /\ pc = "ran"
    /\ Len(writes) = 2 /\ writes[1] # writes[2]
    /\ outputs["out"].value = writes[2][2]

---------------------------------------------------------------------------
(* The input ports of one node instance, used from outside through        *)
(* setInput, setConnected, reset and a read; err holds the exception of    *)
(* the last call and reads the value the last read returned.               *)

\* the classes whose ports are used this way: TestNode2 (str and float
\* inputs, two with a declared default), CreateInt (an int input whose
\* default '' no int can be made of) and DebugPrint (an object input)
PortClasses == {"TestNode2", "CreateInt", "DebugPrint"}

InitPort ==
    /\ cls \in PortClasses
    /\ inputs = NewInputs(cls)
    /\ outputs = NewOutputs(cls)
    /\ fresh = TRUE
    /\ counter = 0
    /\ done = FALSE
    /\ graph = <<>>
    /\ down = <<>>
    /\ pc = "idle"
    /\ err = "none"
    /\ reads = <<>>
    /\ writes = <<>>
    /\ pushes = <<>>
    /\ nWrites = [o \in Range(OutputNames(cls)) |-> 0]
    /\ nPushes = [o \in Range(OutputNames(cls)) |-> 0]
    /\ cycles = 0
    /\ passIn = None
    /\ stable = TRUE
    /\ overwrote = FALSE
    /\ heap = <<>> /\ refs = <<>> /\ attrs = <<>>
    /\ arg = None /\ res = None
    /\ fed = <<>>

\* node.setInput(n, v, override)
PortSet(n, v, override) ==
    LET r == InputInfo_set(inputs[n], v, override)
    IN  /\ cls \in PortClasses
        /\ inputs' = [inputs EXCEPT ![n] = r.port]
        /\ err' = r.exc
        /\ UNCHANGED <<aux, cls, outputs, fresh, counter, done, graph, down, pc, hist, fed>>

\* node.inputs[n].setConnected(b)
PortSetConnected(n, b) ==
    /\ cls \in PortClasses
    /\ inputs' = [inputs EXCEPT ![n] = InputInfo_setConnected(@, b)]
    /\ err' = "none"
    /\ UNCHANGED <<aux, cls, outputs, fresh, counter, done, graph, down, pc, hist, fed>>

\* node.inputs[n].reset()
PortReset(n) ==
    /\ cls \in PortClasses
    /\ inputs' = [inputs EXCEPT ![n] = Info_reset(@)]
    /\ err' = "none"
    /\ UNCHANGED <<aux, cls, outputs, fresh, counter, done, graph, down, pc, hist, fed>>

\* node.inputs[n](noException)
PortRead(n, noException) ==
    LET r == InputInfo_call(inputs[n], VarType(cls, n), IsList(cls, n), noException)
    IN  /\ cls \in PortClasses
        /\ err' = r.exc
        /\ reads' = <<r.val>>
        /\ UNCHANGED <<aux, cls, inputs, outputs, fresh, counter, done, graph, down, pc,
                       writes, pushes, nWrites, nPushes, cycles, passIn, stable, fed,
                       overwrote>>

PortSetAny ==
    \E n \in DOMAIN inputs : \E v \in InputVals(cls, n) : \E o \in BOOLEAN : PortSet(n, v, o)
PortSetConnectedAny == \E n \in DOMAIN inputs : \E b \in BOOLEAN : PortSetConnected(n, b)
PortResetAny == \E n \in DOMAIN inputs : PortReset(n)
PortReadAny == \E n \in DOMAIN inputs : \E x \in BOOLEAN : PortRead(n, x)

NextPort == PortSetAny \/ PortSetConnectedAny \/ PortResetAny \/ PortReadAny
SpecPort == InitPort /\ [][NextPort]_vars

(* C10: input write.  Writing an input that holds a set value without      *)
(* override raises InputAlreadySet and leaves the value and the set flag;  *)
(* a write with override, and any write to an input with no value set,     *)
(* returns, stores the value and sets the flag.                            *)
C10_InputWrite ==
    [][\A n \in DOMAIN inputs : \A v \in InputVals(cls, n) : \A o \in BOOLEAN :
          PortSet(n, v, o) =>
              IF inputs[n].valueSet /\ ~o
              THEN /\ err' = "InputAlreadySet"
                   /\ inputs'[n].value = inputs[n].value
                   /\ inputs'[n].valueSet
              ELSE /\ err' = "none"
                   /\ inputs'[n].value = v
                   /\ inputs'[n].valueSet]_vars

\* a write without override has just failed on an input that keeps its value
C10_Witness ==
    /\ cls = "TestNode2" /\ err = "InputAlreadySet"
    /\ inputs["strInput"].valueSet /\ inputs["strInput"].value = IntV(1)
    /\ inputs["Input"].valueSet /\ inputs["Input"].value = IntV(2)

C12_Availability ==
    /\ [](cls \in PortClasses =>
            \A n \in DOMAIN inputs :
                LET p == inputs[n]
                    r == InputInfo_call(p, VarType(cls, n), IsList(cls, n), FALSE)
                IN  /\ InputInfo_isAvailable(p)
                        <=> (p.valueSet \/ (p.default # None /\ ~p.connected))
                    /\ InputInfo_isAvailable(p) <=> (r.exc # "InputNotAvailable"))
    /\ [][\A n \in DOMAIN inputs : \A b \in BOOLEAN :
            (PortSetConnected(n, b) /\ ~inputs[n].valueSet /\ inputs[n].default # None) =>
                LET q == inputs'[n]
                    r == InputInfo_call(q, VarType(cls, n), IsList(cls, n), FALSE)
                IN  IF b
                    THEN ~InputInfo_isAvailable(q) /\ r.exc = "InputNotAvailable"
                    ELSE InputInfo_isAvailable(q) /\ r = Coerce(VarType(cls, n), q.default)]_vars

\* the input with the default 'TestNode' is marked connected and holds no
\* value; the other inputs hold values, and the last read has raised
\* InputNotAvailable
C12_Witness ==
    /\ cls = "TestNode2" /\ err = "InputNotAvailable"
    /\ inputs["Input"].connected /\ ~inputs["Input"].valueSet
    /\ inputs["Input"].default # None
    /\ inputs["strInput"].valueSet /\ inputs["floatInput"].valueSet

(* C13: reset() clears the value and the set flag, leaves the connected    *)
(* flag and every other port alone, and a second reset changes nothing;    *)
(* afterwards isAvailable() is truthy iff the default is not None and the  *)
(* port is not connected.                                                  *)
C13_ResetIdempotent ==
    [][\A n \in DOMAIN inputs :
          PortReset(n) =>
              LET q == inputs'[n]
              IN  /\ q.value = None /\ ~q.valueSet
                  /\ q.connected = inputs[n].connected
                  /\ Info_reset(q) = q
                  /\ InputInfo_isAvailable(q) <=> (q.default # None /\ ~q.connected)
                  /\ \A m \in DOMAIN inputs \ {n} : inputs'[m] = inputs[m]]_vars

\* a connected input has been reset while another input keeps its value
C13_Witness ==
    /\ cls = "TestNode2"
    /\ inputs["floatInput"].connected /\ inputs["floatInput"].default = None
    /\ ~inputs["floatInput"].valueSet /\ inputs["floatInput"].value = None
    /\ inputs["strInput"].valueSet

---------------------------------------------------------------------------
(* The driver's cycle on a node with the default protocol: DebugPrint      *)
(* (run copies Object to Out) and TestNode2 (run is Node.run).  Here the   *)
(* call of check() is a step of its own: the driver runs the node when     *)
(* check() was truthy and defers it otherwise.                             *)

NodeClasses == {"DebugPrint", "TestNode2"}

NodeCheck ==
    /\ cls \in NodeClasses
    /\ pc = "idle"
    /\ res' = BoolV(Node_check(inputs))
    /\ pc' = "checked"
    /\ UNCHANGED <<cls, inputs, outputs, fresh, counter, done, graph, down, err, hist,
                   fed, heap, refs, attrs, arg>>

NodeDefer ==
    /\ cls \in NodeClasses
    /\ pc = "checked"
    /\ res = BoolV(FALSE)
    /\ pc' = "idle"
    /\ UNCHANGED <<aux, cls, inputs, outputs, fresh, counter, done, graph, down, err,
                   hist, fed>>

NodeRun ==
    /\ cls \in NodeClasses
    /\ pc = "checked"
    /\ res = BoolV(TRUE)
    /\ LET r == IF cls = "DebugPrint" THEN DebugPrint_run(inputs, outputs)
                ELSE Node_run(outputs)
       IN  /\ outputs' = r.outputs
           /\ err' = r.exc
           /\ pc' = IF r.exc = "none" THEN "ran" ELSE "raised"
           /\ AfterRun(TRUE, r, None)
    /\ UNCHANGED <<aux, cls, inputs, fresh, counter, done, graph, down, fed>>

NodeNotify ==
    /\ cls \in NodeClasses
    /\ pc = "ran"
    /\ LET r == Node_notify(graph, inputs, outputs, down)
       IN  /\ inputs' = r.inputs
           /\ down' = r.down
           /\ err' = r.exc
           /\ pc' = IF r.exc = "none" THEN "idle" ELSE "raised"
           /\ AfterNotify(r.sent, TRUE)
    /\ UNCHANGED <<aux, cls, outputs, fresh, counter, done, graph, fed>>

InitPlain == \E c \in NodeClasses : InitNode(c)
NextPlain == NodeCheck \/ NodeDefer \/ NodeRun \/ NodeNotify \/ Upstream \/ Downstream
SpecNode == InitPlain /\ [][NextPlain]_vars

(* C14: default notify.  notify never raises: every connection's           *)
(* downstream input ends up set, to the output's value when the output     *)
(* was written and to the output's default otherwise, also when it held a  *)
(* set value before; every input of the notifying node is then reset.      *)
C14_DefaultNotify ==
    [][(cls \in NodeClasses /\ pc = "ran" /\ pc' # "ran") =>
          /\ pc' = "idle" /\ err' = "none"
          /\ \A i \in DOMAIN graph :
                LET o == outputs[graph[i]]
                IN  /\ down'[i].valueSet
                    /\ down'[i].value = IF o.valueSet THEN o.value ELSE o.default
          /\ \A n \in DOMAIN inputs :
                /\ ~inputs'[n].valueSet
                /\ inputs'[n].value = None
                /\ inputs'[n].default = None
                /\ ~InputInfo_isAvailable(inputs'[n])]_vars

\* a notify has replaced the value a downstream input still held by the
\* value written to Out in this cycle
C14_Witness ==
    /\ cls = "DebugPrint" /\ pc = "idle" /\ overwrote
    /\ outputs["Out"].valueSet /\ outputs["Out"].value = IntV(2)
    /\ Len(down) = 2 /\ down[1].value = IntV(2) /\ down[2].value = IntV(2)

(* C15: default check().  check() returns True when every input is         *)
(* available (a value is set, or the default is not None and the input is  *)
(* not connected) and False when some input is not; it changes nothing.    *)
C15_DefaultCheck ==
    [][NodeCheck =>
          /\ res' = BoolV(\A n \in DOMAIN inputs :
                             \/ inputs[n].valueSet
                             \/ inputs[n].default # None /\ ~inputs[n].connected)
          /\ (\E n \in DOMAIN inputs : ~InputInfo_isAvailable(inputs[n])) => res' = BoolV(FALSE)
          /\ UNCHANGED <<inputs, outputs, down>>]_vars

\* check() has returned False on a node with two available inputs and one
\* input that is not available
C15_Witness ==
    /\ cls = "TestNode2" /\ pc = "checked" /\ res = BoolV(FALSE)
    /\ InputInfo_isAvailable(inputs["strInput"])
    /\ InputInfo_isAvailable(inputs["floatInput"])
    /\ ~InputInfo_isAvailable(inputs["Input"])

(* C16: the Control input of a control node accepts repeated writes.  A    *)
(* write an upstream Node.notify delivers to a Control input that holds a  *)
(* set value succeeds and leaves the latest value; and when the branch     *)
(* node's own notify propagates True, False or Final to the inputs it is   *)
(* connected to (down[i], such as the Control input of another control     *)
(* node) while they hold a set value, it does not raise InputAlreadySet    *)
(* and they hold the propagated value afterwards.                          *)
C16_ControlAcceptsRepeatedWrites ==
    /\ [](cls = "SwitchNode" =>
            \A v \in InputVals(cls, "Control") :
                LET r == InputInfo_set(inputs["Control"], v, TRUE)
                IN  r.exc = "none" /\ r.port.valueSet /\ r.port.value = v)
    /\ [][(cls = "SwitchNode" /\ pc = "ran" /\ pc' # "ran") =>
            /\ err' # "InputAlreadySet"
            /\ \A k \in 1..Len(pushes') :
                  /\ down'[pushes'[k][2]].valueSet
                  /\ down'[pushes'[k][2]].value = pushes'[k][3]]_vars

(* C17: counted loop re-arming.  The notify that ends a loop (it sets      *)
(* fresh) resets Start and Control and leaves the Iterations input as it   *)
(* was; a loop that has completed a pass holds a set value on Iterations   *)
(* and is ready exactly when Start holds a set value; the first run of the *)
(* next pass takes its count from the Iterations value that was kept.      *)
C17_LoopRearm ==
    /\ [][(cls = "Loop" /\ pc = "ran" /\ pc' = "idle" /\ fresh') =>
            /\ \A n \in {"Start", "Control"} :
                  /\ ~inputs'[n].valueSet
                  /\ inputs'[n].value = None
                  /\ ~InputInfo_isAvailable(inputs'[n])
            /\ inputs'["Iterations"] = inputs["Iterations"]]_vars
    /\ [](LoopPassDone =>
            /\ inputs["Iterations"].valueSet
            /\ Loop_check(inputs, fresh, counter) <=> inputs["Start"].valueSet)
    /\ [][(LoopPassDone /\ pc' = "ran") =>
            /\ passIn' = inputs["Iterations"].value
            /\ counter' = inputs["Iterations"].value[2]
            /\ inputs["Iterations"].value = passIn => passIn' = passIn]_vars

\* the first run of a second pass: Start had been reset and written again,
\* Iterations was never reset and gave the count 2 once more
C17_Witness ==
    /\ cls = "Loop" /\ pc = "ran" /\ cycles = 1
    /\ inputs["Start"].default = None /\ inputs["Start"].valueSet
    /\ inputs["Iterations"].default # None /\ inputs["Iterations"].value = IntV(2)
    /\ passIn = IntV(2) /\ counter = 2
    /\ ~inputs["Control"].valueSet

---------------------------------------------------------------------------
(* Class tags and Node.matchClassTag.  A str is the sequence of its        *)
(* characters.                                                             *)

\* the letters of the tags: <<upper case, lower case>>
Letters == <<<<"N", "n">>, <<"O", "o">>, <<"D", "d">>, <<"E", "e">>,
             <<"B", "b">>, <<"U", "u">>, <<"G", "g">>>>

\* ch.lower() and ch.upper()
LowerChar(ch) ==
    IF \E i \in 1..Len(Letters) : Letters[i][1] = ch
    THEN Letters[CHOOSE i \in 1..Len(Letters) : Letters[i][1] = ch][2]
    ELSE ch
UpperChar(ch) ==
    IF \E i \in 1..Len(Letters) : Letters[i][2] = ch
    THEN Letters[CHOOSE i \in 1..Len(Letters) : Letters[i][2] = ch][1]
    ELSE ch

\* s.lower()
PyLower(s) == [i \in 1..Len(s) |-> LowerChar(s[i])]

\* s.startswith(t)
PyStartsWith(s, t) == Len(t) <= Len(s) /\ SubSeq(s, 1, Len(t)) = t

\* cls.__tags__: the tags of the base class, then the class's own
\* (MetaNode.__new__); Node declares Tag('Node'), DebugNode Tag('Debug')
Tags(c) ==
    IF c = "DebugPrint"
    THEN <<<<"N", "o", "d", "e">>, <<"D", "e", "b", "u", "g">>>>
    ELSE <<<<"N", "o", "d", "e">>>>

\* Node.matchClassTag
matchClassTag(c, text) ==
    \E k \in 1..Len(Tags(c)) : PyStartsWith(PyLower(Tags(c)[k]), text)

\* the classes that are looked up and the texts they are looked up with:
\* the starts of the tags in every spelling of upper and lower case, and
\* two texts that start no tag
TagClasses == {"Loop", "DebugPrint"}
Spellings(s) ==
    {t \in [1..Len(s) -> {s[i] : i \in 1..Len(s)} \cup {LowerChar(s[i]) : i \in 1..Len(s)}
                            \cup {UpperChar(s[i]) : i \in 1..Len(s)}] :
        \A i \in 1..Len(s) : LowerChar(t[i]) = LowerChar(s[i])}
Texts ==
    UNION {UNION {Spellings(SubSeq(Tags("DebugPrint")[k], 1, n)) :
                     n \in 0..Len(Tags("DebugPrint")[k])} : k \in 1..2}
        \cup {<<"o">>, <<"n", "o", "d", "e", "s">>}

InitTags ==
    /\ cls \in TagClasses
    /\ inputs = NewInputs(cls)
    /\ outputs = NewOutputs(cls)
    /\ fresh = TRUE
    /\ counter = 0
    /\ done = FALSE
    /\ graph = <<>>
    /\ down = <<>>
    /\ pc = "idle"
    /\ err = "none"
    /\ reads = <<>>
    /\ writes = <<>>
    /\ pushes = <<>>
    /\ nWrites = [o \in Range(OutputNames(cls)) |-> 0]
    /\ nPushes = [o \in Range(OutputNames(cls)) |-> 0]
    /\ cycles = 0
    /\ passIn = None
    /\ stable = TRUE
    /\ overwrote = FALSE
    /\ heap = <<>> /\ refs = <<>> /\ attrs = <<>>
    /\ arg \in Texts /\ res = None
    /\ fed = <<>>

\* cls.matchClassTag(arg)
MatchTag ==
    /\ cls \in TagClasses
    /\ res = None
    /\ res' = BoolV(matchClassTag(cls, arg))
    /\ UNCHANGED <<cls, inputs, outputs, fresh, counter, done, graph, down, pc, err,
                   hist, fed, heap, refs, attrs, arg>>

\* the caller turns to another text
NextText ==
    /\ cls \in TagClasses
    /\ res # None
    /\ arg' \in Texts
    /\ res' = None
    /\ UNCHANGED <<cls, inputs, outputs, fresh, counter, done, graph, down, pc, err,
                   hist, fed, heap, refs, attrs>>

NextTags == MatchTag \/ NextText
SpecTags == InitTags /\ [][NextTags]_vars

(* C20: matchClassTag is case-insensitive.  For every tag of the class and *)
(* every text that equals the start of that tag up to letter case, the     *)
(* lookup returns True.                                                    *)
C20_MatchTagCaseInsensitive ==
    (cls \in TagClasses /\ res # None) =>
        ((\E k \in 1..Len(Tags(cls)) :
             /\ Len(arg) <= Len(Tags(cls)[k])
             /\ PyLower(arg) = PyLower(SubSeq(Tags(cls)[k], 1, Len(arg))))
         => res = BoolV(TRUE))

---------------------------------------------------------------------------
(* Two instances of one class.  The ports are objects on a heap: the class *)
(* holds the ports its declaration created (cls.__inputs__,                *)
(* cls.__outputs__), Node.__init__ gives each instance copies of them, and *)
(* every operation works on the objects the instance refers to.  The first *)
(* output of instance "a" may be connected to the first input of "b".      *)
(* An exception that leaves run or notify ends the drive of the instance   *)
(* (its pc is "raised"); a setInput or a read that raises changes nothing. *)

Insts == {"a", "b"}
Holders == {"class"} \cup Insts

\* copy.copy(inp): a new object with the attributes of the old one
\* mutant: the object itself is handed on
copy_alias(h, id) == [heap |-> h, id |-> id]

copy(h, id) == [heap |-> Append(h, h[id]), id |-> Len(h) + 1]

\* MetaNode.__new__ / Node._addInput, _addOutput: the port objects of the
\* class, inputs first, and the names they are kept under
ClassHeap(c) ==
    [i \in 1..Len(InputNames(c)) |-> NewInputs(c)[InputNames(c)[i]]]
        \o [i \in 1..Len(OutputNames(c)) |-> NewOutputs(c)[OutputNames(c)[i]]]
ClassRefs(c) ==
    [inputs  |-> [n \in Range(InputNames(c)) |->
                     CHOOSE i \in 1..Len(InputNames(c)) : InputNames(c)[i] = n],
     outputs |-> [n \in Range(OutputNames(c)) |->
                     Len(InputNames(c))
                     + CHOOSE i \in 1..Len(OutputNames(c)) : OutputNames(c)[i] = n]]

\* for inp in self.__inputs__.values(): inp = copy(inp); self.inputs[inp.name] = inp
RECURSIVE CopyPorts(_, _, _)
CopyPorts(h, names, src) ==
    IF names = <<>> THEN [heap |-> h, ids |-> <<>>]
    ELSE LET c1 == copy(h, src[Head(names)])
             rest == CopyPorts(c1.heap, Tail(names), src)
         IN  [heap |-> rest.heap, ids |-> (Head(names) :> c1.id) @@ rest.ids]

\* Node.__init__: the heap afterwards and the instance's ports
Node_init(h, c, cr) ==
    LET i == CopyPorts(h, InputNames(c), cr.inputs)
        o == CopyPorts(i.heap, OutputNames(c), cr.outputs)
    IN  [heap |-> o.heap, refs |-> [inputs |-> i.ids, outputs |-> o.ids]]

\* self.inputs / self.outputs of holder x, by value
InsOf(x) == [n \in DOMAIN refs[x].inputs |-> heap[refs[x].inputs[n]]]
OutsOf(x) == [n \in DOMAIN refs[x].outputs |-> heap[refs[x].outputs[n]]]

\* the heap after the objects named by ids have become ports
Store(h, ids, ports) ==
    [id \in DOMAIN h |->
        IF \E n \in DOMAIN ids : ids[n] = id
        THEN ports[CHOOSE n \in DOMAIN ids : ids[n] = id]
        ELSE h[id]]

\* node.check(), node.run() and node.notify() by the instance's class;
\* at holds the attributes fresh, counter and done
CheckOf(c, ins, at) ==
    CASE c = "SwitchNode" -> SwitchNode_check(ins, at.fresh)
      [] c = "Loop"       -> Loop_check(ins, at.fresh, at.counter)
      [] c = "ForEach"    -> ForEach_check(ins, at.fresh)
      [] c = "WaitAny"    -> WaitAny_check(ins)
      [] OTHER            -> Node_check(ins)

\* mutant: a truthy check() takes the inputs it found
CheckEffect_consuming(c, ins, at) ==
    [result |-> CheckOf(c, ins, at),
     inputs |-> IF CheckOf(c, ins, at) THEN ResetInputs(ins, DOMAIN ins) ELSE ins,
     fresh |-> at.fresh, counter |-> at.counter, done |-> at.done]

\* what check() returns and what it leaves of the node: no check method
\* assigns to a port or to an attribute
CheckEffect(c, ins, at) ==
    [result |-> CheckOf(c, ins, at), inputs |-> ins,
     fresh |-> at.fresh, counter |-> at.counter, done |-> at.done]

RunOf(c, ins, outs, at) ==
    LET r == CASE c = "SwitchNode" -> SwitchNode_run(ins, outs, at.fresh)
               [] c = "Loop"       -> Loop_run(ins, outs, at.fresh, at.counter)
               [] c = "ForEach"    -> ForEach_run(ins, outs, at.counter, at.done)
               [] c = "WaitAny"    -> WaitAny_run(ins, outs)
               [] c = "DebugPrint" -> DebugPrint_run(ins, outs)
               [] OTHER            -> Node_run(outs)
    IN  [exc |-> r.exc, outputs |-> r.outputs,
         fresh |-> IF c \in {"Loop", "ForEach"} THEN r.fresh ELSE at.fresh,
         counter |-> IF c \in {"Loop", "ForEach"} THEN r.counter ELSE at.counter,
         done |-> IF c = "ForEach" THEN r.done ELSE at.done]

NotifyOf(c, g, ins, outs, at, d) ==
    LET r == CASE c = "SwitchNode" -> SwitchNode_notify(g, ins, outs, at.fresh, d)
               [] c = "Loop"       -> Loop_notify(g, ins, outs, at.fresh, at.counter, d)
               [] c = "ForEach"    -> ForEach_notify(g, ins, outs, at.fresh, at.counter,
                                                     at.done, d)
               [] c \in {"WaitAll", "WaitAny"} -> WaitAll_notify(g, ins, outs, d)
               [] OTHER            -> Node_notify(g, ins, outs, d)
    IN  [exc |-> r.exc, inputs |-> r.inputs, down |-> r.down,
         fresh |-> IF c \in {"SwitchNode", "Loop", "ForEach"} THEN r.fresh ELSE at.fresh,
         counter |-> IF c = "ForEach" THEN r.counter ELSE at.counter,
         done |-> IF c = "ForEach" THEN r.done ELSE at.done]

InstClasses == {"DebugPrint", "SwitchNode", "Loop", "ForEach", "WaitAll", "WaitAny"}

\* the values written to the inputs of the two instances
InstVals(c, n) ==
    CASE c = "SwitchNode" /\ n = "Switch" -> BoolVals
      [] c = "Loop" /\ n = "Iterations"   -> {IntV(1)}
      [] c = "ForEach" /\ n = "Start"     -> {ListV(<<IntV(1)>>)}
      [] OTHER                            -> {IntV(1)}

\* both instances are operated on, and their ports are used directly as
\* well, for the class with the fewest ports; of the others "a" is
\* driven, its inputs written by setInput, and "b" is the node that "a" may
\* be connected to
PairClasses == {"DebugPrint"}
Operated(x) == x = "a" \/ cls \in PairClasses

\* the input of "b" that the connection from "a" ends in
ConnectedInput == refs["b"].inputs[InputNames(cls)[1]]

InitInstances ==
    /\ cls \in InstClasses
    /\ LET ia == Node_init(ClassHeap(cls), cls, ClassRefs(cls))
           ib == Node_init(ia.heap, cls, ClassRefs(cls))
       IN  /\ heap = ib.heap
           /\ refs = [x \in Holders |->
                         IF x = "class" THEN ClassRefs(cls)
                         ELSE IF x = "a" THEN ia.refs ELSE ib.refs]
    /\ attrs = [x \in Insts |-> [fresh |-> TRUE, counter |-> 0, done |-> FALSE, pc |-> "idle"]]
    /\ graph \in {<<>>, <<OutputNames(cls)[1]>>}
    /\ inputs = <<>> /\ outputs = <<>> /\ down = <<>>
    /\ fresh = TRUE /\ counter = 0 /\ done = FALSE
    /\ pc = "idle"
    /\ err = "none"
    /\ reads = <<>> /\ writes = <<>> /\ pushes = <<>>
    /\ nWrites = <<>> /\ nPushes = <<>>
    /\ cycles = 0
    /\ passIn = None
    /\ stable = TRUE
    /\ overwrote = FALSE
    /\ arg = None /\ res = None
    /\ fed = <<>>

\* what no operation on an instance touches
InstFrame ==
    <<cls, inputs, outputs, fresh, counter, done, graph, down, pc, err, hist, fed, arg>>

\* x.setInput(n, v, override)
InstSetInput(x, n, v, override) ==
    LET r == InputInfo_set(heap[refs[x].inputs[n]], v, override)
    IN  /\ cls \in InstClasses /\ Operated(x)
        /\ heap' = [heap EXCEPT ![refs[x].inputs[n]] = r.port]
        /\ UNCHANGED <<InstFrame, refs, attrs, res>>

\* x.outputs[o](v): OutputInfo.__call__, what self._<o>(v) does in a run
InstWriteOutput(x, o, v) ==
    /\ cls \in InstClasses /\ Operated(x)
    /\ heap' = [heap EXCEPT ![refs[x].outputs[o]] = OutputInfo_call(@, v)]
    /\ UNCHANGED <<InstFrame, refs, attrs, res>>

\* x.inputs[n].setConnected(b)
InstSetConnected(x, n, b) ==
    /\ cls \in PairClasses
    /\ heap' = [heap EXCEPT ![refs[x].inputs[n]] = InputInfo_setConnected(@, b)]
    /\ UNCHANGED <<InstFrame, refs, attrs, res>>

\* x.inputs[n].reset()
InstReset(x, n) ==
    /\ cls \in PairClasses
    /\ heap' = [heap EXCEPT ![refs[x].inputs[n]] = Info_reset(@)]
    /\ UNCHANGED <<InstFrame, refs, attrs, res>>

\* x.inputs[n](): whatever the read returns or raises, no assignment is made
InstRead(x, n) ==
    LET r == InputInfo_call(heap[refs[x].inputs[n]], VarType(cls, n), IsList(cls, n), FALSE)
    IN  /\ cls \in PairClasses
        /\ r.exc \in {"none", "InputNotAvailable", "ValueError", "TypeError"}
        /\ UNCHANGED <<InstFrame, heap, refs, attrs, res>>

\* x.check(): the result is left in res
InstCheck(x) ==
    /\ cls \in InstClasses /\ Operated(x)
    /\ attrs[x].pc = "idle"
    /\ \E r \in {CheckEffect(cls, InsOf(x), attrs[x])} :
          /\ res' = BoolV(r.result)
          /\ heap' = Store(heap, refs[x].inputs, r.inputs)
          /\ attrs' = [attrs EXCEPT ![x].fresh = r.fresh, ![x].counter = r.counter,
                                    ![x].done = r.done]
    /\ UNCHANGED <<InstFrame, refs>>

\* x.run(), after a truthy check
InstRun(x) ==
    /\ cls \in InstClasses /\ Operated(x)
    /\ attrs[x].pc = "idle"
    /\ CheckOf(cls, InsOf(x), attrs[x])
    /\ \E ins \in {InsOf(x)} : \E outs \in {OutsOf(x)} :
       \E r \in {RunOf(cls, ins, outs, attrs[x])} :
          /\ heap' = Store(heap, refs[x].outputs, r.outputs)
          /\ attrs' = [attrs EXCEPT ![x] = [fresh |-> r.fresh, counter |-> r.counter,
                                            done |-> r.done,
                                            pc |-> IF r.exc = "none" THEN "ran"
                                                   ELSE "raised"]]
    /\ UNCHANGED <<InstFrame, refs, res>>

\* x.notify(): the inputs connected to x are set first, then x's own
\* inputs are reset
InstNotify(x) ==
    /\ cls \in InstClasses /\ Operated(x)
    /\ attrs[x].pc = "ran"
    /\ \E g \in {IF x = "a" THEN graph ELSE <<>>} :
       \E ins \in {InsOf(x)} : \E outs \in {OutsOf(x)} :
       \E d \in {[i \in 1..Len(g) |-> heap[ConnectedInput]]} :
       \E r \in {NotifyOf(cls, g, ins, outs, attrs[x], d)} :
       \E h1 \in {IF g = <<>> THEN heap ELSE [heap EXCEPT ![ConnectedInput] = r.down[1]]} :
          /\ heap' = Store(h1, refs[x].inputs, r.inputs)
          /\ attrs' = [attrs EXCEPT ![x] = [fresh |-> r.fresh, counter |-> r.counter,
                                            done |-> r.done,
                                            pc |-> IF r.exc = "none" THEN "idle"
                                                   ELSE "raised"]]
    /\ UNCHANGED <<InstFrame, refs, res>>

\* some operation on instance x
InstPortOp(x) ==
    \/ \E n \in DOMAIN refs[x].inputs :
          \/ \E v \in InstVals(cls, n) : \E o \in BOOLEAN : InstSetInput(x, n, v, o)
          \/ \E b \in BOOLEAN : InstSetConnected(x, n, b)
          \/ InstReset(x, n)
          \/ InstRead(x, n)
    \/ \E o \in DOMAIN refs[x].outputs : InstWriteOutput(x, o, IntV(1))
InstOp(x) == InstPortOp(x) \/ InstCheck(x) \/ InstRun(x) \/ InstNotify(x)

InstSetInputAny ==
    \E x \in Insts : \E n \in DOMAIN refs[x].inputs :
        \E v \in InstVals(cls, n) : \E o \in BOOLEAN : InstSetInput(x, n, v, o)
InstWriteOutputAny ==
    \E x \in Insts : \E o \in DOMAIN refs[x].outputs : InstWriteOutput(x, o, IntV(1))
InstSetConnectedAny ==
    \E x \in Insts : \E n \in DOMAIN refs[x].inputs : \E b \in BOOLEAN : InstSetConnected(x, n, b)
InstResetAny == \E x \in Insts : \E n \in DOMAIN refs[x].inputs : InstReset(x, n)
InstReadAny == \E x \in Insts : \E n \in DOMAIN refs[x].inputs : InstRead(x, n)
InstCheckAny == \E x \in Insts : InstCheck(x)
InstRunAny == \E x \in Insts : InstRun(x)
InstNotifyAny == \E x \in Insts : InstNotify(x)

NextInstances ==
    \/ InstSetInputAny \/ InstWriteOutputAny \/ InstSetConnectedAny \/ InstResetAny \/ InstReadAny
    \/ InstCheckAny \/ InstRunAny \/ InstNotifyAny
SpecInstances == InitInstances /\ [][NextInstances]_vars

\* the ports of holder x, by value: value, set flag, default, connected flag
PortsOf(x) == <<InsOf(x), OutsOf(x)>>

\* the objects holder x refers to
ObjectsOf(x) ==
    {refs[x].inputs[n] : n \in DOMAIN refs[x].inputs}
        \cup {refs[x].outputs[n] : n \in DOMAIN refs[x].outputs}

(* C18: ports are instance-private.  An instance's ports are objects of    *)
(* its own: no two holders (the class, "a", "b") refer to one object, and  *)
(* the schema ports of the class keep the state they were declared with.   *)
(* Every write, read, setConnected, reset, check, run and notify on one    *)
(* instance leaves every port of the other instance and of the schema as   *)
(* it was; the one port of another instance that notify reaches is the     *)
(* input a connection from the notifying instance ends in.                 *)
C18_InstancePrivate ==
    /\ [](cls \in InstClasses =>
            /\ PortsOf("class") = <<NewInputs(cls), NewOutputs(cls)>>
            /\ \A x, y \in Holders : x # y =>
                   ObjectsOf(x) \cap ObjectsOf(y) = {})
    /\ [][\A x \in Insts : InstOp(x) =>
            /\ PortsOf("class")' = PortsOf("class")
            /\ \A y \in Insts \ {x} :
                   /\ OutsOf(y)' = OutsOf(y)
                   /\ \A n \in DOMAIN refs[y].inputs :
                          (InstNotify(x) /\ x = "a" /\ graph # <<>>
                              /\ refs[y].inputs[n] = ConnectedInput)
                          \/ InsOf(y)'[n] = InsOf(y)[n]]_vars

\* "a" has run on an input that was set and has written its output, while
\* the same ports of "b" and of the schema are as they were declared
C18_Witness ==
    /\ cls \in InstClasses
    /\ attrs["a"].pc = "ran"
    /\ \E n \in DOMAIN refs["a"].inputs :
          /\ InsOf("a")[n].valueSet
          /\ InsOf("b")[n] = NewInputs(cls)[n]
          /\ InsOf("class")[n] = NewInputs(cls)[n]
    /\ \E o \in DOMAIN refs["a"].outputs :
          /\ OutsOf("a")[o].valueSet
          /\ ~OutsOf("b")[o].valueSet
          /\ ~OutsOf("class")[o].valueSet

\* C18 as stated: no operation on one instance, notify included, changes
\* any port of the other instance or of the schema
C18_NoOperationReachesOther ==
    [][\A x \in Insts : InstOp(x) =>
          \A y \in Holders \ {x} : PortsOf(y)' = PortsOf(y)]_vars

(* C19: only notify writes another node's inputs.  check() changes no port *)
(* of any node and no fresh, counter or done of its own node; run() changes *)
(* no port of another node; and a step that changes an input of "b"        *)
(* without operating on "b" is the notify of "a", the node connected to it. *)
C19_OnlyNotifyWritesDownstream ==
    [][\A x \in Insts :
          /\ InstCheck(x) => heap' = heap /\ attrs' = attrs
          /\ InstRun(x) => \A y \in Holders \ {x} : PortsOf(y)' = PortsOf(y)
          /\ (InsOf(x)' # InsOf(x) /\ ~InstOp(x)) =>
                 \E y \in Insts \ {x} : InstNotify(y) /\ graph # <<>>]_vars

\* "a" is back from notify and the connected input of "b" holds the value
\* "a" pushed, while "b" has been checked and not run
C19_Witness ==
    /\ cls \in InstClasses \ PairClasses
    /\ graph # <<>>
    /\ attrs["a"].pc = "idle" /\ ~attrs["a"].fresh
    /\ attrs["b"].pc = "idle"
    /\ heap[ConnectedInput].valueSet
    /\ res # None

---------------------------------------------------------------------------
(* The pushes of a counted loop over one pass.                             *)

\* the number of connections that leave output o
ConnectionsOf(o) == Cardinality({i \in 1..Len(graph) : graph[i] = o})

(* C21: one pass of a Loop with Iterations = N >= 0, driven by check-gated *)
(* run + notify cycles.  The notify of cycle k <= N sets every input       *)
(* connected to LoopBody to what the run of that cycle read, Start in      *)
(* cycle 1 and Control in the later ones, and nothing connected to Final;  *)
(* the pass ends with the notify of cycle N + 1, which sets every input    *)
(* connected to Final once and nothing connected to LoopBody.  The counter *)
(* is N - k + 1 after cycle k <= N and within 0..N throughout.             *)
C21_LoopPushes ==
    /\ []((cls = "Loop" /\ cycles > 0 /\ pc # "raised") =>
            /\ counter \in 0..passIn[2]
            /\ \A k \in 1..Len(pushes) : pushes[k][1] = pushes[1][1]
            /\ (pc = "idle" /\ ~fresh) =>
                   /\ cycles <= passIn[2]
                   /\ counter = passIn[2] - cycles + 1
                   /\ nPushes["LoopBody"] = cycles * ConnectionsOf("LoopBody")
                   /\ nPushes["Final"] = 0
                   /\ Len(pushes) = ConnectionsOf("LoopBody")
                   /\ \A k \in 1..Len(pushes) :
                          pushes[k][1] = "LoopBody" /\ pushes[k][3] = reads[1]
            /\ (pc = "idle" /\ fresh) =>
                   /\ cycles = passIn[2] + 1
                   /\ counter = 0
                   /\ nPushes["LoopBody"] = passIn[2] * ConnectionsOf("LoopBody")
                   /\ nPushes["Final"] = ConnectionsOf("Final")
                   /\ Len(pushes) = ConnectionsOf("Final")
                   /\ \A k \in 1..Len(pushes) : pushes[k][1] = "Final")
    /\ [][(LoopRun /\ err' = "none") =>
             reads' = <<ReadInput("Loop", inputs, IF fresh THEN "Start" ELSE "Control").val>>]_vars

\* a pass with N = 2 has completed on a loop whose LoopBody is connected:
\* two pushes of LoopBody in three cycles
C21_Witness ==
    /\ LoopPassDone
    /\ passIn = IntV(2)
    /\ cycles = 3
    /\ ConnectionsOf("LoopBody") = 1
    /\ nPushes["LoopBody"] = 2

---------------------------------------------------------------------------
(* Readiness and the reads of run.                                         *)

\* the inputs whose isAvailable() the check of class c asks for: all of
\* them (Node.check), all but Control while fresh and Control afterwards
\* (the control nodes); WaitAny.check looks at valueSet only
Gated(c, at) ==
    CASE c \in {"SwitchNode", "Loop", "ForEach"} ->
             IF at.fresh THEN Range(InputNames(c)) \ {"Control"} ELSE {"Control"}
      [] c = "WaitAny" -> {}
      [] OTHER -> Range(InputNames(c))

(* C22: in every reachable state of an input port, isAvailable() is true   *)
(* exactly when a raising read of the port does not fail with              *)
(* InputNotAvailable; and whenever check() of a node is truthy, no read of *)
(* an input the check asked for fails with InputNotAvailable, nor does the *)
(* run that follows.                                                       *)
C22_AvailableMeansReadable ==
    cls \in InstClasses =>
        \A x \in Insts :
            /\ \A n \in DOMAIN refs[x].inputs :
                   InputInfo_isAvailable(InsOf(x)[n])
                       <=> ReadInput(cls, InsOf(x), n).exc # "InputNotAvailable"
            /\ (attrs[x].pc = "idle" /\ CheckOf(cls, InsOf(x), attrs[x])) =>
                   /\ \A n \in Gated(cls, attrs[x]) :
                          ReadInput(cls, InsOf(x), n).exc # "InputNotAvailable"
                   /\ RunOf(cls, InsOf(x), OutsOf(x), attrs[x]).exc # "InputNotAvailable"

\* a Loop has been checked, truthy, on its Control input alone and has run
\* its second cycle without an exception
C22_Witness ==
    /\ cls = "Loop"
    /\ res = BoolV(TRUE)
    /\ attrs["a"].pc = "ran"
    /\ ~attrs["a"].fresh
    /\ attrs["a"].counter = 0
    /\ InsOf("a")["Control"].valueSet

---------------------------------------------------------------------------
(* Defaults after a firing.                                                *)

\* a notify of the node has returned and no run has followed
Notified == cls \in NodeClasses /\ cycles > 0 /\ pc \in {"idle", "checked"}

(* C23: schema defaults do not survive a firing.  The default notify       *)
(* leaves every input of the node unavailable, the unconnected ones that   *)
(* had a default included; from then on an input is available exactly when *)
(* a value has been written to it, which only setInput does, and check()   *)
(* returns True exactly when every input has been written.                 *)
C23_DefaultsDoNotSurvive ==
    /\ [](Notified =>
            /\ \A n \in DOMAIN inputs :
                   /\ inputs[n].default = None
                   /\ InputInfo_isAvailable(inputs[n]) <=> inputs[n].valueSet
            /\ pc = "checked" =>
                   (res = BoolV(TRUE) <=> \A n \in DOMAIN inputs : inputs[n].valueSet))
    /\ [][NodeNotify =>
             /\ \A n \in DOMAIN inputs : ~InputInfo_isAvailable(inputs'[n])
             /\ ~Node_check(inputs')]_vars
    /\ [][(cls \in NodeClasses
             /\ \E n \in DOMAIN inputs : ~inputs[n].valueSet /\ inputs'[n].valueSet)
               => Upstream]_vars

\* after a notify two of the three inputs of a TestNode2 have been written
\* again; the third, not connected, is not available and check() has
\* returned False
C23_Witness ==
    /\ Notified /\ cls = "TestNode2"
    /\ pc = "checked" /\ res = BoolV(FALSE)
    /\ Cardinality({n \in DOMAIN inputs : inputs[n].valueSet}) = 2
    /\ \E n \in DOMAIN inputs : ~inputs[n].valueSet /\ ~inputs[n].connected

---------------------------------------------------------------------------
(* The outputs over the cycles.                                            *)

\* the classes that keep Node.notify (WaitAll.notify calls it first)
DefaultNotifyClasses == {"DebugPrint", "WaitAll", "WaitAny"}

(* C24: output ports are never cleared.  No notify and no reset of an      *)
(* input changes an output port of any instance or of the schema; an       *)
(* output that holds a set value keeps being set, and its state changes    *)
(* only by a run of its node or by a write to the port itself.  The        *)
(* default notify sets the connected input to the value the output holds,  *)
(* also when the run of the cycle did not write it, and to the output's    *)
(* default only when the output was never written.                         *)
C24_OutputsNeverCleared ==
    /\ [][\A x \in Insts :
             (InstNotify(x) \/ \E n \in DOMAIN refs[x].inputs : InstReset(x, n)) =>
                 \A y \in Holders : OutsOf(y)' = OutsOf(y)]_vars
    /\ [][(cls \in InstClasses) =>
             \A y \in Insts : \A o \in DOMAIN refs[y].outputs :
                 /\ OutsOf(y)[o].valueSet => OutsOf(y)'[o].valueSet
                 /\ OutsOf(y)'[o] # OutsOf(y)[o] =>
                        (InstRun(y) \/ \E v \in {IntV(1)} : InstWriteOutput(y, o, v))]_vars
    /\ [][(cls \in DefaultNotifyClasses /\ graph # <<>> /\ InstNotify("a")) =>
             LET out == OutsOf("a")[graph[1]]
             IN  /\ heap'[ConnectedInput].valueSet
                 /\ heap'[ConnectedInput].value =
                        IF out.valueSet THEN out.value ELSE out.default]_vars

\* a WaitAll, whose run writes no output, has been notified: its inputs
\* are reset, its output still holds the value written to it before, and
\* that value is what the connected input was set to
C24_Witness ==
    /\ cls = "WaitAll" /\ graph # <<>>
    /\ attrs["a"].pc = "idle"
    /\ \A n \in DOMAIN refs["a"].inputs : InsOf("a")[n].default = None
    /\ OutsOf("a")["out"].valueSet
    /\ heap[ConnectedInput].valueSet
    /\ heap[ConnectedInput].value = OutsOf("a")["out"].value

---------------------------------------------------------------------------
(* The any-of barrier and the writes that arrive while it fires.           *)

(* C25: the any-of barrier loses no input.  Upstream notify calls set the  *)
(* inputs at any point between the barrier's check, run and notify; every  *)
(* value an input holds when the barrier's notify resets the inputs is one *)
(* the preceding run wrote to the output.                                  *)
C25_WaitAnyLosesNoInput ==
    [][(cls = "WaitAny" /\ BarrierNotify) =>
          \A n \in DOMAIN inputs :
              inputs[n].valueSet =>
                  \E k \in 1..Len(writes) : writes[k] = <<"out", inputs[n].value>>]_vars

====
